---- MODULE Spec2Model ----
(***************************************************************************)
(* Philips amBX driver for OpenRGB: the session object AMBXController      *)
(* (constructor, claim-per-operation SendPacket, colour operations,        *)
(* destructor) and the discovery pass DetectAMBXControllers.               *)
(*                                                                         *)
(* The program is single-threaded and blocking.  One step of the model is  *)
(* one libusb call of the code together with the code that follows it up   *)
(* to the next libusb call; pc names the call the thread is about to make. *)
(* The answers of libusb (the results of init, open, claim, transfer and   *)
(* release) are the environment's and are chosen with \E.                  *)
(***************************************************************************)
EXTENDS Integers, Sequences, FiniteSets, TLC

(***************************************************************************)
(* Bounds of the model.                                                    *)
(***************************************************************************)
\* number of devices on the USB bus (bus 1, addresses 1..NumDevices)
NumDevices == 2
\* largest count the host passes to SetLEDColors / SetMultipleColors
MaxCount == 6

(***************************************************************************)
(* Program constants.                                                      *)
(***************************************************************************)
AMBX_PACKET_HEADER == 161
AMBX_SET_COLOR == 3
AMBX_LIGHT_LEFT == 11
AMBX_LIGHT_RIGHT == 27
AMBX_LIGHT_WALL_LEFT == 43
AMBX_LIGHT_WALL_CENTER == 59
AMBX_LIGHT_WALL_RIGHT == 75
AMBX_LIGHT_ALL == 255
BATCH_SIZE == 5
\* the bound of both retry loops: for(attempt = 0; attempt < 3; attempt++)
CLAIM_ATTEMPTS == 3
TRANSFER_ATTEMPTS == 3
\* sleep_for(milliseconds(20)) after a failed claim
CLAIM_DELAY_MS == 20
\* sleep_for(milliseconds(10 * (attempt + 1))) after a failed transfer
TRANSFER_DELAY_MS == 10
\* the delays that end SetSingleColor and SetMultipleColors
SINGLE_DELAY_MS == 2
MULTI_DELAY_MS == 5

\* unsigned int arithmetic is modular.  The model keeps 2^4 values of the
\* type: like 2^16, 2^32 and 2^64 this leaves remainder 1 when divided by
\* BATCH_SIZE, which is what decides whether i + BATCH_SIZE can wrap.
UINT_RANGE == 2 ^ 4

multi_headers == <<164, 196, 228, 4, 36, 68, 100, 132>>

\* the zone vocabulary of the header's enum
ValidZones ==
    { AMBX_LIGHT_LEFT, AMBX_LIGHT_RIGHT, AMBX_LIGHT_WALL_LEFT,
      AMBX_LIGHT_WALL_CENTER, AMBX_LIGHT_WALL_RIGHT, AMBX_LIGHT_ALL }

\* the leds[] array of SetAllColors
AllLeds ==
    << AMBX_LIGHT_LEFT, AMBX_LIGHT_RIGHT, AMBX_LIGHT_WALL_LEFT,
       AMBX_LIGHT_WALL_CENTER, AMBX_LIGHT_WALL_RIGHT >>

(***************************************************************************)
(* RGBColor is OpenRGB's 0x00BBGGRR word.                                  *)
(***************************************************************************)
ToRGBColor(r, g, b) == (b * 65536) + (g * 256) + r
RGBGetRValue(c) == c % 256
RGBGetGValue(c) == (c \div 256) % 256
RGBGetBValue(c) == (c \div 65536) % 256

\* the store of an unsigned int into an unsigned char of the packet buffer
ToByte(v) == v % 256

(***************************************************************************)
(* Packet construction.                                                    *)
(***************************************************************************)
\* a color_buf with blue and red exchanged
SinglePacketBGR(light, red, green, blue) ==
    << AMBX_PACKET_HEADER, ToByte(light), AMBX_SET_COLOR, blue, green, red >>

\* SetSingleColor's color_buf
SinglePacket(light, red, green, blue) ==
    << AMBX_PACKET_HEADER, ToByte(light), AMBX_SET_COLOR, red, green, blue >>

\* a group without its command byte
LightGroupNoCommand(light, color) ==
    << ToByte(light), RGBGetRValue(color), RGBGetGValue(color), RGBGetBValue(color) >>

\* one light's five bytes in SetMultipleColors' packet
LightGroup(light, color) ==
    << ToByte(light), AMBX_SET_COLOR,
       RGBGetRValue(color), RGBGetGValue(color), RGBGetBValue(color) >>

RECURSIVE LightGroups(_)
\* the body of the batch packet: the groups of the pairs, in input order
LightGroups(pairs) ==
    IF pairs = <<>> THEN <<>>
    ELSE LightGroup(Head(pairs)[1], Head(pairs)[2]) \o LightGroups(Tail(pairs))

\* SetMultipleColors' packet for count in 2..5, with header index hidx
BatchPacket(hidx, pairs) == << multi_headers[hidx + 1] >> \o LightGroups(pairs)

\* a rotation that stays where it is
NextHeaderIndexStuck(hidx) == hidx

\* header_index = (header_index + 1) % 8
NextHeaderIndex(hidx) == (hidx + 1) % Len(multi_headers)

(***************************************************************************)
(* The environment: the bus and libusb's answers.                          *)
(***************************************************************************)
Devices == 1 .. NumDevices
Sessions == 1 .. NumDevices

\* "ambx": vendor/product match and libusb_open succeeds;
\* "locked": vendor/product match and libusb_open fails (access, busy);
\* "other": the descriptor does not match, or cannot be read.
DeviceKinds == {"ambx", "locked", "other"}

\* desc.idVendor == AMBX_VID && desc.idProduct == AMBX_PID
Matches(kind) == kind \in {"ambx", "locked"}

\* libusb_open's result for a matching device
OpenResult(kind) == IF kind = "ambx" THEN "LIBUSB_SUCCESS" ELSE "LIBUSB_ERROR_ACCESS"

ClaimResults == {"LIBUSB_SUCCESS", "LIBUSB_ERROR_BUSY", "LIBUSB_ERROR_OTHER"}
ReleaseResults == {"LIBUSB_SUCCESS", "LIBUSB_ERROR_NO_DEVICE"}

\* what libusb_interrupt_transfer can answer for a packet of `size` bytes:
\* all bytes sent, one byte short with success reported, or a timeout
TransferAnswers(size) ==
    { [rc |-> "LIBUSB_SUCCESS", n |-> size],
      [rc |-> "LIBUSB_SUCCESS", n |-> size - 1],
      [rc |-> "LIBUSB_ERROR_TIMEOUT", n |-> 0] }

\* an entry of the call log
Call(name, rc, n) == [call |-> name, rc |-> rc, n |-> n]

NoLocation == [fmt |-> "", dev |-> 0]

NoHeld == [handle |-> 0, context |-> FALSE, claimed |-> FALSE]

\* no SetSingleColor / SetMultipleColors call is in progress
NoSingle == <<>>
NoMulti == [called |-> FALSE, lights |-> <<>>, count |-> 0]

VARIABLES
    bus,                \* [Devices -> DeviceKinds], fixed by Init
    \* the fields of each AMBXController
    initialized, interface_claimed, usb_context, dev_handle, location, serial,
    life,               \* "none" | "ctor" | "live" | "dead": the object's lifetime
    header_index,       \* the function-static of SetMultipleColors
    \* DetectAMBXControllers
    pass,               \* "not_run" | "running" | "done"
    det_i, detected_devices, registered, diag,
    \* the thread
    pc, cur, frame, caller,
    \* locals
    scan_i,             \* the constructor's loop index
    leds, count, i,     \* SetLEDColors' arguments (leds[k] = <<led, color>>) and its index
    packet,             \* the buffer handed to SendPacket
    attempt, result, actual_length,
    \* observation
    trace,              \* libusb calls and sleeps of the operation in progress
    sent,               \* the packets the operation has handed to SendPacket
    held,               \* what the controller held when its destructor was entered
    singleArgs,         \* <<light, red, green, blue>> of the SetSingleColor call in progress
    multiArgs           \* lights and count of the SetMultipleColors call in progress,
                        \* or of the one that has just returned at its count check

sessVars == << initialized, interface_claimed, usb_context, dev_handle, location, serial, life >>
detVars == << pass, det_i, detected_devices, registered, diag >>
ctlVars == << pc, cur, frame, caller >>
locVars == << scan_i, leds, count, i, packet, attempt, result, actual_length >>
obsVars == << trace, sent, held, singleArgs, multiArgs >>
vars == << bus, sessVars, header_index, detVars, ctlVars, locVars, obsVars >>

Init ==
    /\ bus \in [Devices -> DeviceKinds]
    /\ initialized = [s \in Sessions |-> FALSE]
    /\ interface_claimed = [s \in Sessions |-> FALSE]
    /\ usb_context = [s \in Sessions |-> FALSE]
    /\ dev_handle = [s \in Sessions |-> 0]
    /\ location = [s \in Sessions |-> NoLocation]
    /\ serial = [s \in Sessions |-> ""]
    /\ life = [s \in Sessions |-> "none"]
    /\ header_index = 0
    /\ pass = "not_run"
    /\ det_i = 0
    /\ detected_devices = 0
    /\ registered = {}
    /\ diag = FALSE
    /\ pc = "idle"
    /\ cur = 0
    /\ frame = "none"
    /\ caller = "none"
    /\ scan_i = 0
    /\ leds = <<>>
    /\ count = 0
    /\ i = 0
    /\ packet = <<>>
    /\ attempt = 0
    /\ result = "LIBUSB_ERROR_OTHER"
    /\ actual_length = 0
    /\ trace = <<>>
    /\ sent = <<>>
    /\ held = NoHeld
    /\ singleArgs = NoSingle
    /\ multiArgs = NoMulti

(***************************************************************************)
(* SendPacket, ClaimInterface, ReleaseInterface.                           *)
(***************************************************************************)
\* the delay that follows SendPacket in its caller: SetSingleColor sends
\* the 6-byte color_buf, SetMultipleColors every other packet
PostDelay(pkt) == IF Len(pkt) = 6 THEN SINGLE_DELAY_MS ELSE MULTI_DELAY_MS

\* trace after the caller's delay
Delayed(tr, pkt) == Append(tr, Call("sleep_for", "", PostDelay(pkt)))

\* i += BATCH_SIZE on an unsigned int
Advance(idx) == (idx + BATCH_SIZE) % UINT_RANGE

\* SetLEDColors' i += BATCH_SIZE, taken when SetMultipleColors returns into the loop
NextI == IF i < count THEN Advance(i) ELSE i

\* the calls of an operation's earlier packet are dropped when its next one starts
TraceBase == IF sent = <<>> THEN trace ELSE <<>>

\* a SendPacket and ClaimInterface without their guard
NotReadyUnchecked(s) == FALSE

\* a ClaimInterface that takes the interface for claimed
AlreadyClaimedAssumed(s) == TRUE

\* ClaimInterface: if(interface_claimed) return true;
AlreadyClaimed(s) == interface_claimed[s]

\* a ReleaseInterface that always returns at its guard
ReleaseSkippedAlways(s) == TRUE

\* a ReleaseInterface that also drops the handle
HandleDroppedAfterRelease(s) == 0

\* ReleaseInterface writes interface_claimed only: dev_handle keeps its value
HandleAfterRelease(s) == dev_handle[s]

\* ReleaseInterface: if(!initialized || dev_handle == nullptr || !interface_claimed) return;
ReleaseSkipped(s) == ~initialized[s] \/ dev_handle[s] = 0 \/ ~interface_claimed[s]

\* ClaimInterface's and SendPacket's guard: if(!initialized || dev_handle == nullptr)
NotReady(s) == ~initialized[s] \/ dev_handle[s] = 0

\* retry loops that run once more: attempt <= 3
ClaimRetryOnceMore(att) == att <= CLAIM_ATTEMPTS
TransferRetryOnceMore(att) == att <= TRANSFER_ATTEMPTS

\* the retry loops' condition: attempt < 3
ClaimRetry(att) == att < CLAIM_ATTEMPTS
TransferRetry(att) == att < TRANSFER_ATTEMPTS

\* a success test that forgets the byte count
TransferCompleteIgnoringLength(rc, n, size) == rc = "LIBUSB_SUCCESS"

\* if(result == LIBUSB_SUCCESS && actual_length == static_cast<int>(size))
TransferComplete(rc, n, size) == rc = "LIBUSB_SUCCESS" /\ n = size

\* the message SendPacket logs after the retry loop ("" when it logs none)
SendError(rc, n, size) ==
    IF rc # "LIBUSB_SUCCESS" THEN "transfer_error"
    ELSE IF n # size THEN "partial_transfer"
    ELSE ""

\* trace with SendPacket's error message, when there is one
Logged(tr, msg) == IF msg = "" THEN tr ELSE Append(tr, Call("LOG_ERROR", msg, 0))

\* SendPacket(pkt, Len(pkt)) on session s, up to its first libusb call
SendPacket(s, pkt) ==
    /\ sent' = Append(sent, pkt)
    /\ UNCHANGED << result, actual_length, attempt >>
    /\ IF NotReady(s)
       THEN /\ trace' = Delayed(Logged(TraceBase, "not_initialized"), pkt)
            /\ packet' = <<>>
            /\ i' = NextI
            /\ pc' = "chunk"
       ELSE /\ trace' = TraceBase
            /\ packet' = pkt
            /\ i' = i
            /\ pc' = IF AlreadyClaimed(s) THEN "transfer" ELSE "claim"

\* one iteration of ClaimInterface's loop: libusb_claim_interface, and on
\* failure the 20 ms sleep; after the last failure SendPacket returns
ClaimAttempt ==
    /\ pc = "claim"
    /\ \E rc \in ClaimResults :
         LET tr == Append(trace, Call("libusb_claim_interface", rc, attempt + 1)) IN
         IF rc = "LIBUSB_SUCCESS"
         THEN /\ interface_claimed' = [interface_claimed EXCEPT ![cur] = TRUE]
              /\ trace' = tr
              /\ attempt' = 0
              /\ pc' = "transfer"
              /\ UNCHANGED << packet, i >>
         ELSE LET slept == Append(tr, Call("sleep_for", "", CLAIM_DELAY_MS)) IN
              /\ UNCHANGED interface_claimed
              /\ IF ClaimRetry(attempt + 1)
                 THEN /\ trace' = slept
                      /\ attempt' = attempt + 1
                      /\ pc' = "claim"
                      /\ UNCHANGED << packet, i >>
                 ELSE /\ trace' = Delayed(Logged(slept, "claim_failed"), packet)
                      /\ attempt' = 0
                      /\ packet' = <<>>
                      /\ i' = NextI
                      /\ pc' = "chunk"
    /\ UNCHANGED << bus, initialized, usb_context, dev_handle, location, serial, life,
                    header_index, detVars, cur, frame, caller, scan_i, leds, count,
                    result, actual_length, sent, held,
                    singleArgs, multiArgs >>

\* one iteration of SendPacket's loop: libusb_interrupt_transfer, and on
\* failure the backoff sleep
TransferAttempt ==
    /\ pc = "transfer"
    /\ \E a \in TransferAnswers(Len(packet)) :
         LET tr == Append(trace, Call("libusb_interrupt_transfer", a.rc, a.n)) IN
         /\ result' = a.rc
         /\ actual_length' = a.n
         /\ IF TransferComplete(a.rc, a.n, Len(packet))
            THEN /\ trace' = tr
                 /\ attempt' = attempt
                 /\ pc' = "release"
            ELSE /\ trace' = Append(tr, Call("sleep_for", "", TRANSFER_DELAY_MS * (attempt + 1)))
                 /\ attempt' = attempt + 1
                 /\ pc' = IF TransferRetry(attempt + 1) THEN "transfer" ELSE "release"
    /\ UNCHANGED << bus, sessVars, header_index, detVars, cur, frame, caller,
                    scan_i, leds, count, i, packet, sent, held,
                    singleArgs, multiArgs >>

\* the end of SendPacket: the error message, ReleaseInterface, and the
\* caller's delay
SendFinish ==
    /\ pc = "release"
    /\ \E rr \in ReleaseResults :
         LET tr == Logged(trace, SendError(result, actual_length, Len(packet))) IN
         IF ReleaseSkipped(cur)
         THEN /\ trace' = Delayed(tr, packet)
              /\ UNCHANGED << interface_claimed, dev_handle >>
         ELSE /\ trace' = Delayed(Append(tr, Call("libusb_release_interface", rr, 0)), packet)
              /\ interface_claimed' = [interface_claimed EXCEPT ![cur] = FALSE]
              /\ dev_handle' = [dev_handle EXCEPT ![cur] = HandleAfterRelease(cur)]
    /\ packet' = <<>>
    /\ attempt' = 0
    /\ result' = "LIBUSB_ERROR_OTHER"
    /\ actual_length' = 0
    /\ i' = NextI
    /\ pc' = "chunk"
    /\ UNCHANGED << bus, initialized, usb_context, location, serial, life,
                    header_index, detVars, cur, frame, caller, scan_i, leds, count, sent, held,
                    singleArgs, multiArgs >>

(***************************************************************************)
(* The colour operations.                                                  *)
(***************************************************************************)
\* SetSingleColor(light, red, green, blue) on session s
SetSingleColor(s, light, red, green, blue) ==
    /\ SendPacket(s, SinglePacket(light, red, green, blue))
    /\ singleArgs' = << light, red, green, blue >>
    /\ UNCHANGED header_index

\* SetLEDColor(led, color) on session s
SetLEDColor(s, led, color) ==
    SetSingleColor(s, led, RGBGetRValue(color), RGBGetGValue(color), RGBGetBValue(color))

\* a count check that only rejects 0
BadCountZeroOnly(cnt) == cnt = 0

\* if(count == 0 || count > 5) return;
BadCount(cnt) == cnt = 0 \/ cnt > BATCH_SIZE

\* SetMultipleColors(lights, colors, cnt) on session s for a count it accepts;
\* lights[k] = <<light, color>>
SetMultipleColors(s, lights, cnt) ==
    /\ multiArgs' = [called |-> TRUE, lights |-> lights, count |-> cnt]
    /\ IF cnt = 1
       THEN SetLEDColor(s, lights[1][1], lights[1][2])
       ELSE /\ SendPacket(s, BatchPacket(header_index, SubSeq(lights, 1, cnt)))
            /\ header_index' = NextHeaderIndex(header_index)
            /\ singleArgs' = NoSingle

\* a chunk size that is always 1
BatchCountOne(idx, cnt) == 1

\* unsigned int batch_count = ((i + BATCH_SIZE) <= count) ? BATCH_SIZE : (count - i);
BatchCount(idx, cnt) ==
    IF (idx + BATCH_SIZE) % UINT_RANGE <= cnt
    THEN BATCH_SIZE
    ELSE (cnt - idx) % UINT_RANGE

RECURSIVE ChunkList(_, _, _)
\* SetLEDColors' loop from i = idx on, as the <<i, batch_count>> of its
\* iterations; at most `fuel` iterations are followed
ChunkList(idx, cnt, fuel) ==
    IF fuel = 0 \/ ~(idx < cnt) THEN <<>>
    ELSE << << idx, BatchCount(idx, cnt) >> >> \o ChunkList(Advance(idx), cnt, fuel - 1)

\* one iteration of SetLEDColors' loop, up to the first libusb call of its packet
SetLEDColorsLoop ==
    /\ pc = "chunk"
    /\ i < count
    /\ SetMultipleColors(cur, SubSeq(leds, i + 1, i + BatchCount(i, count)), BatchCount(i, count))
    /\ UNCHANGED << bus, sessVars, detVars, cur, frame, caller, scan_i, leds, count, held >>

\* a leds[] array that names the first zone five times
AllColorsFirstZone(color) == [k \in 1 .. Len(AllLeds) |-> << AllLeds[1], color >>]

\* the arguments SetAllColors(color) passes to SetLEDColors
AllColors(color) == [k \in 1 .. Len(AllLeds) |-> << AllLeds[k], color >>]

\* the operation's return: to the host, into the constructor after its
\* SetAllColors, or into the destructor after its SetAllColors
OpReturn ==
    /\ pc = "chunk"
    /\ ~(i < count)
    /\ leds' = <<>>
    /\ count' = 0
    /\ i' = 0
    /\ IF frame = "host"
       THEN /\ pc' = "idle"
            /\ cur' = 0
            /\ trace' = <<>>
            /\ sent' = <<>>
       ELSE /\ pc' = IF frame = "ctor" THEN "ctor_done" ELSE "dtor_release"
            /\ UNCHANGED << cur, trace, sent >>
    /\ frame' = "none"
    /\ singleArgs' = NoSingle
    /\ multiArgs' = NoMulti
    /\ UNCHANGED << bus, sessVars, header_index, detVars, caller, scan_i, packet,
                    attempt, result, actual_length, held >>

(***************************************************************************)
(* Inputs of the host's calls.                                             *)
(***************************************************************************)
\* zone arguments: two of the vocabulary, one outside it, one above a byte
LightInputs == { AMBX_LIGHT_LEFT, AMBX_LIGHT_ALL, 92, 267 }
ColorInputs == { ToRGBColor(255, 0, 0), ToRGBColor(1, 2, 3) }

\* led arrays of MaxCount entries: the zones in order, and the same with an
\* identifier outside the vocabulary in second place and one above a byte
\* in fourth place
ZoneArray == [k \in 1 .. MaxCount |-> AllLeds[((k - 1) % Len(AllLeds)) + 1]]
MixedArray ==
    [k \in 1 .. MaxCount |-> IF k = 2 THEN 92 ELSE IF k = 4 THEN 267 ELSE ZoneArray[k]]
LedArrays == { ZoneArray, MixedArray }
ColorArray == [k \in 1 .. MaxCount |-> ToRGBColor(k, 2 * k, 255 - k)]
Pairs(arr) == [k \in 1 .. MaxCount |-> << arr[k], ColorArray[k] >>]

HostReady(s) == pc = "idle" /\ life[s] = "live"

HostFrame(s) ==
    /\ cur' = s
    /\ frame' = "host"
    /\ UNCHANGED << bus, sessVars, detVars, caller, scan_i, leds, count, held >>

HostSetSingleColor(s) ==
    /\ HostReady(s)
    /\ \E light \in LightInputs, c \in ColorInputs :
         SetSingleColor(s, light, RGBGetRValue(c), RGBGetGValue(c), RGBGetBValue(c))
    /\ multiArgs' = NoMulti
    /\ HostFrame(s)

HostSetLEDColor(s) ==
    /\ HostReady(s)
    /\ \E led \in LightInputs, c \in ColorInputs : SetLEDColor(s, led, c)
    /\ multiArgs' = NoMulti
    /\ HostFrame(s)

HostSetMultipleColors(s) ==
    /\ HostReady(s)
    /\ \E arr \in LedArrays, cnt \in 0 .. MaxCount :
         IF BadCount(cnt)
         THEN /\ multiArgs' = [called |-> TRUE, lights |-> Pairs(arr), count |-> cnt]
              /\ singleArgs' = NoSingle
              /\ UNCHANGED << bus, sessVars, header_index, detVars, ctlVars, locVars,
                              trace, sent, held >>
         ELSE /\ SetMultipleColors(s, Pairs(arr), cnt)
              /\ HostFrame(s)

\* SetLEDColors(leds, colors, cnt): the loop's entry
HostSetLEDColors(s) ==
    /\ HostReady(s)
    /\ \E arr \in LedArrays, cnt \in 0 .. MaxCount :
         /\ leds' = SubSeq(Pairs(arr), 1, cnt)
         /\ count' = cnt
    /\ i' = 0
    /\ pc' = "chunk"
    /\ cur' = s
    /\ frame' = "host"
    /\ singleArgs' = NoSingle
    /\ multiArgs' = NoMulti
    /\ UNCHANGED << bus, sessVars, header_index, detVars, caller, scan_i, packet,
                    attempt, result, actual_length, trace, sent, held >>

\* SetAllColors(color): SetLEDColors(leds, colors, 5)
HostSetAllColors(s) ==
    /\ HostReady(s)
    /\ \E c \in ColorInputs : leds' = AllColors(c)
    /\ count' = Len(AllLeds)
    /\ i' = 0
    /\ pc' = "chunk"
    /\ cur' = s
    /\ frame' = "host"
    /\ singleArgs' = NoSingle
    /\ multiArgs' = NoMulti
    /\ UNCHANGED << bus, sessVars, header_index, detVars, caller, scan_i, packet,
                    attempt, result, actual_length, trace, sent, held >>

(***************************************************************************)
(* AMBXController::AMBXController(path).                                   *)
(***************************************************************************)
InitAnswers == {"ok", "init_failed", "list_failed"}
SerialAnswers == {"", "serial"}

\* the fields' initial values, libusb_init and libusb_get_device_list
CtorInit ==
    /\ pc = "ctor_init"
    /\ initialized' = [initialized EXCEPT ![cur] = FALSE]
    /\ interface_claimed' = [interface_claimed EXCEPT ![cur] = FALSE]
    /\ dev_handle' = [dev_handle EXCEPT ![cur] = 0]
    /\ location' = [location EXCEPT ![cur] = [fmt |-> "path", dev |-> cur]]
    /\ \E a \in InitAnswers :
         /\ usb_context' = [usb_context EXCEPT ![cur] = (a # "init_failed")]
         /\ trace' = << Call("libusb_init", a, 0) >>
         /\ IF a = "ok"
            THEN pc' = "ctor_scan" /\ scan_i' = 1
            ELSE pc' = "ctor_done" /\ scan_i' = 0
    /\ sent' = <<>>
    /\ UNCHANGED << bus, serial, life, header_index, detVars, cur, frame, caller,
                    leds, count, i, packet, attempt, result, actual_length, held,
                    singleArgs, multiArgs >>

\* a scan that steps over every other entry of the list
ScanSkip(idx) == idx + 2

\* the scan loop's i++
ScanNext(idx) == idx + 1

\* one iteration of the constructor's loop over the device list
CtorScan ==
    /\ pc = "ctor_scan"
    /\ scan_i <= NumDevices
    /\ \E sn \in SerialAnswers :
         IF Matches(bus[scan_i])
         THEN /\ location' = [location EXCEPT ![cur] = [fmt |-> "bus_addr", dev |-> scan_i]]
              /\ trace' = Append(trace, Call("libusb_open", OpenResult(bus[scan_i]), scan_i))
              /\ IF OpenResult(bus[scan_i]) = "LIBUSB_SUCCESS"
                 THEN /\ dev_handle' = [dev_handle EXCEPT ![cur] = scan_i]
                      /\ serial' = [serial EXCEPT ![cur] = sn]
                      /\ initialized' = [initialized EXCEPT ![cur] = TRUE]
                      /\ scan_i' = scan_i
                      /\ pc' = "ctor_free"
                 ELSE /\ scan_i' = ScanNext(scan_i)
                      /\ pc' = IF ScanNext(scan_i) <= NumDevices THEN "ctor_scan" ELSE "ctor_free"
                      /\ UNCHANGED << dev_handle, serial, initialized >>
         ELSE /\ scan_i' = ScanNext(scan_i)
              /\ pc' = IF ScanNext(scan_i) <= NumDevices THEN "ctor_scan" ELSE "ctor_free"
              /\ UNCHANGED << location, trace, dev_handle, serial, initialized >>
    /\ UNCHANGED << bus, interface_claimed, usb_context, life, header_index, detVars,
                    cur, frame, caller, leds, count, i, packet, attempt, result,
                    actual_length, sent, held,
                    singleArgs, multiArgs >>

\* libusb_free_device_list, the check of initialized, and the call of
\* SetAllColors(ToRGBColor(0, 0, 0))
CtorFree ==
    /\ pc = "ctor_free"
    /\ scan_i' = 0
    /\ IF ~initialized[cur]
       THEN /\ pc' = "ctor_done"
            /\ UNCHANGED << leds, count, frame >>
       ELSE /\ leds' = AllColors(ToRGBColor(0, 0, 0))
            /\ count' = Len(AllLeds)
            /\ frame' = "ctor"
            /\ pc' = "chunk"
    /\ i' = 0
    /\ UNCHANGED << bus, sessVars, header_index, detVars, cur, caller, packet,
                    attempt, result, actual_length, trace, sent, held,
                    singleArgs, multiArgs >>

\* new AMBXController(path) called by the host
HostConstruct(s) ==
    /\ pc = "idle"
    /\ life[s] = "none"
    /\ s = 1
    /\ life' = [life EXCEPT ![s] = "ctor"]
    /\ cur' = s
    /\ caller' = "host"
    /\ pc' = "ctor_init"
    /\ singleArgs' = NoSingle
    /\ multiArgs' = NoMulti
    /\ UNCHANGED << bus, initialized, interface_claimed, usb_context, dev_handle,
                    location, serial, header_index, detVars, frame, locVars, trace, sent, held >>

\* the constructor's return to the host
CtorReturn ==
    /\ pc = "ctor_done"
    /\ caller = "host"
    /\ life' = [life EXCEPT ![cur] = "live"]
    /\ pc' = "idle"
    /\ cur' = 0
    /\ caller' = "none"
    /\ trace' = <<>>
    /\ sent' = <<>>
    /\ UNCHANGED << bus, initialized, interface_claimed, usb_context, dev_handle,
                    location, serial, header_index, detVars, frame, locVars, held,
                    singleArgs, multiArgs >>

(***************************************************************************)
(* AMBXController::~AMBXController().                                      *)
(***************************************************************************)
\* a destructor that closes the handle only inside if(interface_claimed)
DtorHasHandleIfClaimed(s) == dev_handle[s] # 0 /\ interface_claimed[s]
\* a destructor that tears the context down only for an initialized controller
DtorHasContextIfInitialized(s) == usb_context[s] /\ initialized[s]

\* a destructor that always turns the lights off
DtorLightsOffAlways(s) == TRUE

\* the destructor's three conditions
DtorLightsOff(s) == initialized[s]
DtorHasHandle(s) == dev_handle[s] # 0
DtorHasContext(s) == usb_context[s]

\* if(initialized) SetAllColors(ToRGBColor(0, 0, 0))
DtorBegin ==
    /\ pc = "dtor"
    /\ trace' = <<>>
    /\ sent' = <<>>
    /\ held' = [handle |-> dev_handle[cur], context |-> usb_context[cur],
                claimed |-> interface_claimed[cur]]
    /\ i' = 0
    /\ IF DtorLightsOff(cur)
       THEN /\ leds' = AllColors(ToRGBColor(0, 0, 0))
            /\ count' = Len(AllLeds)
            /\ frame' = "dtor"
            /\ pc' = "chunk"
       ELSE /\ pc' = "dtor_release"
            /\ UNCHANGED << leds, count, frame >>
    /\ UNCHANGED << bus, sessVars, header_index, detVars, cur, caller, scan_i, packet,
                    attempt, result, actual_length, singleArgs, multiArgs >>

\* if(dev_handle != nullptr) { if(interface_claimed) { release; flag = false; } ...
DtorRelease ==
    /\ pc = "dtor_release"
    /\ \E rr \in ReleaseResults :
         IF DtorHasHandle(cur) /\ interface_claimed[cur]
         THEN /\ trace' = Append(trace, Call("libusb_release_interface", rr, 0))
              /\ interface_claimed' = [interface_claimed EXCEPT ![cur] = FALSE]
         ELSE UNCHANGED << trace, interface_claimed >>
    /\ pc' = "dtor_close"
    /\ UNCHANGED << bus, initialized, usb_context, dev_handle, location, serial, life,
                    header_index, detVars, cur, frame, caller, locVars, sent, held,
                    singleArgs, multiArgs >>

\* ... libusb_close(dev_handle); dev_handle = nullptr; }
DtorClose ==
    /\ pc = "dtor_close"
    /\ IF DtorHasHandle(cur)
       THEN /\ trace' = Append(trace, Call("libusb_close", "", dev_handle[cur]))
            /\ dev_handle' = [dev_handle EXCEPT ![cur] = 0]
       ELSE UNCHANGED << trace, dev_handle >>
    /\ pc' = "dtor_exit"
    /\ UNCHANGED << bus, initialized, interface_claimed, usb_context, location, serial,
                    life, header_index, detVars, cur, frame, caller, locVars, sent, held,
                    singleArgs, multiArgs >>

\* if(usb_context != nullptr) { libusb_exit(usb_context); usb_context = nullptr; }
DtorExit ==
    /\ pc = "dtor_exit"
    /\ IF DtorHasContext(cur)
       THEN /\ trace' = Append(trace, Call("libusb_exit", "", 0))
            /\ usb_context' = [usb_context EXCEPT ![cur] = FALSE]
       ELSE UNCHANGED << trace, usb_context >>
    /\ life' = [life EXCEPT ![cur] = "dead"]
    /\ pc' = "dtor_done"
    /\ UNCHANGED << bus, initialized, interface_claimed, dev_handle, location, serial,
                    header_index, detVars, cur, frame, caller, locVars, sent, held,
                    singleArgs, multiArgs >>

\* delete controller, called by the host on a controller it holds
HostDestroy(s) ==
    /\ pc = "idle"
    /\ life[s] = "live"
    /\ pass # "running"
    /\ cur' = s
    /\ caller' = "host"
    /\ pc' = "dtor"
    /\ singleArgs' = NoSingle
    /\ multiArgs' = NoMulti
    /\ UNCHANGED << bus, sessVars, header_index, detVars, frame, locVars, trace, sent, held >>

\* the destructor's return: to the host, or into the discovery loop
DtorReturn ==
    /\ pc = "dtor_done"
    /\ IF caller = "host"
       THEN /\ pc' = "idle"
            /\ cur' = 0
            /\ trace' = <<>>
            /\ sent' = <<>>
            /\ UNCHANGED det_i
       ELSE /\ pc' = "det_loop"
            /\ det_i' = det_i + 1
            /\ UNCHANGED << cur, trace, sent >>
    /\ caller' = "none"
    /\ held' = NoHeld
    /\ UNCHANGED << bus, sessVars, header_index, pass, detected_devices, registered,
                    diag, frame, locVars, singleArgs, multiArgs >>

(***************************************************************************)
(* DetectAMBXControllers().                                                *)
(***************************************************************************)
\* a pass that registers whatever it constructs
IsInitializedAssumed(s) == TRUE

\* bool AMBXController::IsInitialized() { return initialized; }
IsInitialized(s) == initialized[s]

\* a pass that warns whenever a device matches
AccessDiagnosticAlways(n) == \E d \in Devices : Matches(bus[d])

\* if(detected_devices == 0): the second loop warns at the first matching device
AccessDiagnostic(n) == n = 0 /\ \E d \in Devices : Matches(bus[d])

\* libusb_init and libusb_get_device_list of the pass
DetectStart ==
    /\ pc = "idle"
    /\ pass = "not_run"
    /\ \E a \in InitAnswers :
         IF a = "ok"
         THEN /\ pass' = "running"
              /\ det_i' = 1
              /\ pc' = "det_loop"
         ELSE /\ pass' = "done"
              /\ UNCHANGED << det_i, pc >>
    /\ detected_devices' = 0
    /\ UNCHANGED << bus, sessVars, header_index, registered, diag, cur, frame, caller,
                    locVars, trace, sent, held,
                    singleArgs, multiArgs >>

\* one iteration of the enumeration loop: a matching device gets a controller
\* built for its path "bus-address"
DetectLoop ==
    /\ pc = "det_loop"
    /\ det_i <= NumDevices
    /\ IF Matches(bus[det_i])
       THEN /\ life' = [life EXCEPT ![det_i] = "ctor"]
            /\ cur' = det_i
            /\ caller' = "detect"
            /\ pc' = "ctor_init"
            /\ UNCHANGED det_i
       ELSE /\ det_i' = det_i + 1
            /\ UNCHANGED << life, cur, caller, pc >>
    /\ UNCHANGED << bus, initialized, interface_claimed, usb_context, dev_handle,
                    location, serial, header_index, pass, detected_devices, registered,
                    diag, frame, locVars, trace, sent, held,
                    singleArgs, multiArgs >>

\* if(controller->IsInitialized()) register it, else delete it
DetectCheck ==
    /\ pc = "ctor_done"
    /\ caller = "detect"
    /\ IF IsInitialized(cur)
       THEN /\ registered' = registered \cup {cur}
            /\ detected_devices' = detected_devices + 1
            /\ life' = [life EXCEPT ![cur] = "live"]
            /\ det_i' = det_i + 1
            /\ pc' = "det_loop"
            /\ caller' = "none"
       ELSE /\ pc' = "dtor"
            /\ UNCHANGED << registered, detected_devices, life, det_i, caller >>
    /\ UNCHANGED << bus, initialized, interface_claimed, usb_context, dev_handle,
                    location, serial, header_index, pass, diag, cur, frame, locVars,
                    trace, sent, held,
                    singleArgs, multiArgs >>

\* the second loop (the access diagnostic), libusb_free_device_list, libusb_exit
DetectFinish ==
    /\ pc = "det_loop"
    /\ det_i > NumDevices
    /\ diag' = AccessDiagnostic(detected_devices)
    /\ pass' = "done"
    /\ det_i' = 0
    /\ pc' = "idle"
    /\ UNCHANGED << bus, sessVars, header_index, detected_devices, registered, cur,
                    frame, caller, locVars, trace, sent, held,
                    singleArgs, multiArgs >>

(***************************************************************************)
(* Specifications.                                                         *)
(***************************************************************************)
\* steps of a controller operation in progress
ControllerStep ==
    \/ CtorInit
    \/ CtorScan
    \/ CtorFree
    \/ SetLEDColorsLoop
    \/ ClaimAttempt
    \/ TransferAttempt
    \/ SendFinish
    \/ OpReturn
    \/ DtorBegin
    \/ DtorRelease
    \/ DtorClose
    \/ DtorExit
    \/ DtorReturn

\* the discovery pass at startup, and the host's destruction of the
\* controllers it registered
Next ==
    \/ DetectStart
    \/ DetectLoop
    \/ DetectCheck
    \/ DetectFinish
    \/ ControllerStep
    \/ \E s \in Sessions : HostDestroy(s)

Spec == Init /\ [][Next]_vars

\* one controller driven through its public interface
InitOps ==
    /\ Init
    /\ \A d \in Devices : d > 1 => bus[d] = "ambx"

NextOps ==
    \/ \E s \in Sessions : HostConstruct(s)
    \/ CtorReturn
    \/ ControllerStep
    \/ \E s \in Sessions : HostSetSingleColor(s)
    \/ \E s \in Sessions : HostSetLEDColor(s)
    \/ \E s \in Sessions : HostSetLEDColors(s)
    \/ \E s \in Sessions : HostSetMultipleColors(s)
    \/ \E s \in Sessions : HostSetAllColors(s)
    \/ \E s \in Sessions : HostDestroy(s)

SpecOps == InitOps /\ [][NextOps]_vars

(***************************************************************************)
(* Reading the call log.                                                   *)
(***************************************************************************)
Positions(name) == { k \in 1 .. Len(trace) : trace[k].call = name }
ClaimPos == Positions("libusb_claim_interface")
TransferPos == Positions("libusb_interrupt_transfer")
ReleasePos == Positions("libusb_release_interface")
ClosePos == Positions("libusb_close")
ExitPos == Positions("libusb_exit")
Last(S) == CHOOSE k \in S : \A j \in S : j <= k

Succeeded(e) == e.rc = "LIBUSB_SUCCESS"
AllClaimsFailed == \A p \in ClaimPos : ~Succeeded(trace[p])
ClaimsGranted == { p \in ClaimPos : Succeeded(trace[p]) }
LoggedError(msg) == \E k \in Positions("LOG_ERROR") : trace[k].rc = msg
\* entry p of the log is followed by a sleep of more than 0 ms
SleepFollows(p) ==
    /\ p < Len(trace)
    /\ trace[p + 1].call = "sleep_for"
    /\ trace[p + 1].n > 0

\* the packet of the SendPacket call the log belongs to
LastSent == sent[Len(sent)]
FullTransfer(e) == Succeeded(e) /\ e.n = Len(LastSent)
PartialTransfer(e) == Succeeded(e) /\ e.n < Len(LastSent)

\* the zone bytes of a single or batch packet
ZoneBytes(pkt) == { pkt[2 + 5 * j] : j \in 0 .. (((Len(pkt) - 1) \div 5) - 1) }

\* the batch packet that sets the five zones to black
IsLightsOff(pkt) ==
    /\ Len(pkt) = 1 + 5 * Len(AllLeds)
    /\ \E h \in 1 .. Len(multi_headers) : pkt[1] = multi_headers[h]
    /\ SubSeq(pkt, 2, Len(pkt)) = LightGroups(AllColors(ToRGBColor(0, 0, 0)))

(***************************************************************************)
(* C1.  When a matching device is found, its open succeeds and all three   *)
(* claim attempts of the constructor fail, the pass does not register the  *)
(* controller and its handle is not open once the pass has ended.  (Stated *)
(* for the controller the pass built last, whose calls the log still       *)
(* holds.)  The code registers it: see C1 in RESULTS.json.                 *)
(***************************************************************************)
C1_ClaimFailureNotRegistered ==
    ( /\ pc = "idle"
      /\ pass = "done"
      /\ cur # 0
      /\ \E k \in Positions("libusb_open") : Succeeded(trace[k])
      /\ Cardinality(ClaimPos) = CLAIM_ATTEMPTS
      /\ AllClaimsFailed )
    => ( cur \notin registered /\ dev_handle[cur] = 0 )

(***************************************************************************)
(* C2.  When the destructor of a controller that held an open handle has   *)
(* run, it has made exactly one lights-off attempt (one all-black batch    *)
(* packet, at least one claim attempt for it), then released the interface *)
(* once per granted claim, then closed the handle once, then torn the      *)
(* context down once, in this order, whatever the claim, the transfers and *)
(* the release answered.                                                   *)
(***************************************************************************)
C2_TeardownOrder ==
    ( pc = "dtor_done" /\ held.handle # 0 )
    => LET n == Len(trace) IN
       /\ Len(sent) = 1
       /\ IsLightsOff(sent[1])
       /\ ClaimPos # {}
       /\ Cardinality(ReleasePos) <= 1
       /\ Cardinality(ReleasePos) = Cardinality(ClaimsGranted)
       /\ Cardinality(ClosePos) = 1
       /\ Cardinality(ExitPos) = 1
       /\ n >= 2
       /\ trace[n].call = "libusb_exit"
       /\ trace[n - 1].call = "libusb_close"
       /\ \A r \in ReleasePos : \A k \in ClaimPos \cup TransferPos : k < r
       /\ \A k \in ClaimPos \cup TransferPos \cup ReleasePos : k < n - 1

\* a destructor has ended after three failed transfers and a failed release
C2_Witness ==
    /\ pc = "dtor_done"
    /\ held.handle # 0
    /\ Cardinality(TransferPos) = TRANSFER_ATTEMPTS
    /\ \A p \in TransferPos : ~Succeeded(trace[p])
    /\ \E r \in ReleasePos : ~Succeeded(trace[r])
    /\ ClosePos # {}
    /\ ExitPos # {}

(***************************************************************************)
(* C3.  One ClaimInterface call never makes more than 3 claim attempts; a  *)
(* failed attempt is followed by a sleep of more than 0 ms; while the call *)
(* is retrying fewer than 3 attempts have been made; and once the call has *)
(* ended with every attempt failed, exactly 3 were made, interface_claimed *)
(* is false, SendPacket logged the claim failure and no transfer was made. *)
(***************************************************************************)
C3_ClaimRetry ==
    /\ Cardinality(ClaimPos) <= CLAIM_ATTEMPTS
    /\ \A p \in ClaimPos : ~Succeeded(trace[p]) => SleepFollows(p)
    /\ pc = "claim" =>
         /\ Cardinality(ClaimPos) = attempt
         /\ attempt < CLAIM_ATTEMPTS
         /\ AllClaimsFailed
    /\ ( pc # "claim" /\ ClaimPos # {} /\ AllClaimsFailed ) =>
         /\ Cardinality(ClaimPos) = CLAIM_ATTEMPTS
         /\ ~interface_claimed[cur]
         /\ LoggedError("claim_failed")
         /\ TransferPos = {}

\* a host call has returned from SendPacket after three busy answers
C3_Witness ==
    /\ pc = "chunk"
    /\ frame = "host"
    /\ Cardinality(ClaimPos) = CLAIM_ATTEMPTS
    /\ \A p \in ClaimPos : trace[p].rc = "LIBUSB_ERROR_BUSY"
    /\ ~interface_claimed[cur]

(***************************************************************************)
(* C4.  A packet with a zone byte outside {0x0B, 0x1B, 0x2B, 0x3B, 0x4B,   *)
(* 0xFF} causes no interface claim and no transfer.  The code validates    *)
(* nothing: see C4 in RESULTS.json.                                        *)
(***************************************************************************)
C4_InvalidZoneRejected ==
    ( sent # <<>> /\ ~(ZoneBytes(LastSent) \subseteq ValidZones) )
    => ( ClaimPos = {} /\ TransferPos = {} )

(***************************************************************************)
(* C5.  After a pass in which every matching device can be opened and a    *)
(* controller was registered for each of them, the controller built for    *)
(* the path of address a holds the handle of device a, so no two           *)
(* controllers hold the same device.  The constructor ignores its path:    *)
(* see C5 in RESULTS.json.                                                 *)
(***************************************************************************)
C5_OneSessionPerDevice ==
    ( /\ pc = "idle"
      /\ pass = "done"
      /\ \A d \in Devices : bus[d] # "locked"
      /\ registered = { d \in Devices : Matches(bus[d]) }
      /\ \A s \in registered : life[s] = "live" )
    => /\ \A s \in registered : dev_handle[s] = s
       /\ \A s, t \in registered : s # t => dev_handle[s] # dev_handle[t]

(***************************************************************************)
(* C6.  A transfer that reports success with fewer bytes than requested    *)
(* is not a success: it is followed by the backoff sleep and, unless it    *)
(* was the third attempt, by another attempt; and when SendPacket has      *)
(* ended, its message is decided by the last attempt: partial_transfer     *)
(* after a short count (only ever after 3 attempts), transfer_error after  *)
(* a transport error, none after a full transfer.                          *)
(***************************************************************************)
C6_PartialTransferIsError ==
    TransferPos # {} =>
      LET last == trace[Last(TransferPos)] IN
      /\ \A p \in TransferPos : PartialTransfer(trace[p]) =>
            /\ SleepFollows(p)
            /\ \/ Cardinality({ q \in TransferPos : q <= p }) = TRANSFER_ATTEMPTS
               \/ \E q \in TransferPos : q > p
               \/ pc = "transfer"
      /\ pc \notin {"transfer", "release"} =>
            /\ PartialTransfer(last) =>
                 /\ Cardinality(TransferPos) = TRANSFER_ATTEMPTS
                 /\ LoggedError("partial_transfer")
                 /\ ~LoggedError("transfer_error")
            /\ ~Succeeded(last) =>
                 /\ LoggedError("transfer_error")
                 /\ ~LoggedError("partial_transfer")
            /\ FullTransfer(last) => Positions("LOG_ERROR") = {}

\* SendPacket has ended with the partial-transfer message after a first
\* attempt that timed out
C6_Witness ==
    /\ pc = "chunk"
    /\ Cardinality(TransferPos) = TRANSFER_ATTEMPTS
    /\ PartialTransfer(trace[Last(TransferPos)])
    /\ \E p \in TransferPos : ~Succeeded(trace[p])
    /\ LoggedError("partial_transfer")

(***************************************************************************)
(* C7.  A constructor that ends with initialized false holds no open       *)
(* handle and no USB context.  The code keeps the context until the        *)
(* destructor: see C7 in RESULTS.json.                                     *)
(***************************************************************************)
C7_FailedInitHoldsNothing ==
    ( pc = "ctor_done" /\ ~initialized[cur] )
    => ( dev_handle[cur] = 0 /\ ~usb_context[cur] )

(***************************************************************************)
(* C8.  When the destructor has run, the interface is not claimed, the     *)
(* handle is null and the context is null; libusb_close was called once    *)
(* on the handle the controller held and not at all when it held none;     *)
(* libusb_exit was called once if it held a context and not at all         *)
(* otherwise; libusb_release_interface was called once for the claim held  *)
(* at entry and once for each claim granted during the lights-off.         *)
(***************************************************************************)
C8_TeardownReleasesAll ==
    pc = "dtor_done" =>
      /\ ~interface_claimed[cur]
      /\ dev_handle[cur] = 0
      /\ ~usb_context[cur]
      /\ Cardinality(ClosePos) = (IF held.handle # 0 THEN 1 ELSE 0)
      /\ \A c \in ClosePos : trace[c].n = held.handle
      /\ Cardinality(ExitPos) = (IF held.context THEN 1 ELSE 0)
      /\ Cardinality(ReleasePos) =
             Cardinality(ClaimsGranted) + (IF held.claimed THEN 1 ELSE 0)
      /\ held.handle = 0 => ClaimPos = {}

\* the destructor of a controller that held a context and no handle has run
C8_Witness ==
    /\ pc = "dtor_done"
    /\ held.context
    /\ held.handle = 0
    /\ Cardinality(ExitPos) = 1
    /\ ClosePos = {}

(***************************************************************************)
(* C9.  In every state, a controller whose interface_claimed is true holds *)
(* an open handle (dev_handle is not null) and is a constructed, not yet   *)
(* destroyed object.                                                       *)
(***************************************************************************)
C9_ClaimedImpliesHandle ==
    \A s \in Sessions :
        interface_claimed[s] =>
            /\ dev_handle[s] \in Devices
            /\ life[s] \in {"ctor", "live"}

\* a controller holds the claim while a host call is transferring
C9_Witness ==
    /\ pc = "transfer"
    /\ frame = "host"
    /\ interface_claimed[cur]
    /\ dev_handle[cur] # 0

(***************************************************************************)
(* C10.  For one packet SendPacket makes at most 3 transfer attempts; no   *)
(* attempt follows a full transfer; every failed attempt is followed by a  *)
(* sleep of 10 ms times its number; SendPacket gives up only after 3       *)
(* failed attempts; and when it has returned after them it has logged the  *)
(* error and the controller is as ready as before: initialized true, the   *)
(* handle open, the interface released.                                    *)
(***************************************************************************)
C10_TransferRetry ==
    TransferPos # {} =>
      /\ Cardinality(TransferPos) <= TRANSFER_ATTEMPTS
      /\ \A p \in TransferPos :
            IF FullTransfer(trace[p])
            THEN p = Last(TransferPos)
            ELSE /\ SleepFollows(p)
                 /\ trace[p + 1].n =
                       TRANSFER_DELAY_MS * Cardinality({ q \in TransferPos : q <= p })
      /\ ( pc # "transfer" /\ \A p \in TransferPos : ~FullTransfer(trace[p]) ) =>
            Cardinality(TransferPos) = TRANSFER_ATTEMPTS
      /\ ( pc = "chunk" /\ \A p \in TransferPos : ~FullTransfer(trace[p]) ) =>
            /\ Positions("LOG_ERROR") # {}
            /\ initialized[cur]
            /\ dev_handle[cur] # 0
            /\ ~interface_claimed[cur]

\* a host call has returned from SendPacket after three failed transfers
C10_Witness ==
    /\ pc = "chunk"
    /\ frame = "host"
    /\ Cardinality(TransferPos) = TRANSFER_ATTEMPTS
    /\ \A p \in TransferPos : ~FullTransfer(trace[p])
    /\ initialized[cur]

(***************************************************************************)
(* Reading the packets.                                                    *)
(***************************************************************************)
\* SendPacket is between its entry and its return
Sending == pc \in {"claim", "transfer", "release"}
\* bytes first .. first + 4 of a packet, counted from 0 as the code does
GroupAt(pkt, first) == SubSeq(pkt, first + 1, first + 5)
\* the colour triples the host's calls are made with
ColorTriples == { << 255, 0, 0 >>, << 1, 2, 3 >> }

(***************************************************************************)
(* C11.  While a SetMultipleColors call with count in 1..5 is in progress  *)
(* and once it has handed its packet to SendPacket, that packet has        *)
(* exactly 1 + 5 * count bytes and, for each i < count, its bytes          *)
(* 1 + 5i .. 5 + 5i are lights[i] (as a byte), 0x03 and the red, green and *)
(* blue of colors[i]; this is the buffer SendPacket works on.  count = 1   *)
(* goes through SetSingleColor and has the same shape.                     *)
(***************************************************************************)
C11_BatchPacketLayout ==
    ( multiArgs.called /\ multiArgs.count \in 1 .. BATCH_SIZE )
    => /\ sent # <<>>
       /\ Len(LastSent) = 1 + 5 * multiArgs.count
       /\ \A k \in 0 .. (multiArgs.count - 1) :
            LET light == multiArgs.lights[k + 1][1]
                color == multiArgs.lights[k + 1][2] IN
            GroupAt(LastSent, 1 + 5 * k) =
                << light % 256, AMBX_SET_COLOR, color % 256,
                   (color \div 256) % 256, (color \div 65536) % 256 >>
       /\ Sending => packet = LastSent
       /\ multiArgs.count = 1 => LastSent[1] = AMBX_PACKET_HEADER

\* a three-light call with an identifier outside the vocabulary in second
\* place is being transferred
C11_Witness ==
    /\ pc = "transfer"
    /\ multiArgs.called
    /\ multiArgs.count = 3
    /\ multiArgs.lights[2][1] \notin ValidZones
    /\ Len(packet) = 16

(***************************************************************************)
(* C12.  A step in which SetMultipleColors is called with count 0 or with  *)
(* count above 5 changes nothing: no packet is handed to SendPacket, no    *)
(* libusb call is made, the fields of every controller and the header      *)
(* rotation index keep their values, and the thread is where it was.       *)
(***************************************************************************)
C12_BadCountNoEffect ==
    [][ ( multiArgs'.called /\ ( multiArgs'.count = 0 \/ multiArgs'.count > 5 ) )
        => /\ UNCHANGED << sessVars, header_index, ctlVars, locVars, trace, sent >>
           /\ sent' = <<>>
           /\ trace' = <<>> ]_vars

\* a call with count 6 has returned on an initialized controller whose
\* rotation index has moved
C12_Witness ==
    /\ pc = "idle"
    /\ multiArgs.called
    /\ multiArgs.count > BATCH_SIZE
    /\ header_index # 0
    /\ \E s \in Sessions : initialized[s] /\ life[s] = "live"

(***************************************************************************)
(* C13.  While a SetSingleColor(zone, r, g, b) call with a zone of the     *)
(* vocabulary is in progress, the packet it handed to SendPacket is the 6  *)
(* bytes 0xA1, zone, 0x03, r, g, b, this is the buffer the transfers are   *)
(* made from, and no transfer reports more than 6 bytes.                   *)
(***************************************************************************)
C13_SinglePacketLayout ==
    ( singleArgs # NoSingle /\ singleArgs[1] \in ValidZones )
    => /\ sent # <<>>
       /\ Len(LastSent) = 6
       /\ LastSent = << 161, singleArgs[1], 3, singleArgs[2], singleArgs[3], singleArgs[4] >>
       /\ Sending => packet = LastSent
       /\ \A p \in TransferPos : trace[p].n <= 6

\* SetSingleColor(0xFF, 1, 2, 3) is being transferred
C13_Witness ==
    /\ pc = "transfer"
    /\ singleArgs = << AMBX_LIGHT_ALL, 1, 2, 3 >>
    /\ packet = << 161, 255, 3, 1, 2, 3 >>

(***************************************************************************)
(* C14.  When SetLEDColors has run for five lights of one colour c (the    *)
(* call SetAllColors(c) makes) on an initialized controller and every      *)
(* claim and transfer succeeded, it has handed over exactly one packet, of *)
(* 26 bytes: a batch header, then for the zones 0x0B, 0x1B, 0x2B, 0x3B,    *)
(* 0x4B in this order the zone, 0x03 and the red, green, blue of c; and    *)
(* exactly one transfer, of 26 bytes, was made.                            *)
(***************************************************************************)
C14_SetAllColorsOnePacket ==
    \A t \in ColorTriples :
      ( /\ pc = "chunk"
        /\ frame = "host"
        /\ ~(i < count)
        /\ count = 5
        /\ Len(leds) = 5
        /\ \A k \in 1 .. 5 : leds[k][2] = ToRGBColor(t[1], t[2], t[3])
        /\ ~NotReady(cur)
        /\ ClaimPos # {}
        /\ \A p \in ClaimPos : Succeeded(trace[p])
        /\ TransferPos # {}
        /\ \A p \in TransferPos : FullTransfer(trace[p]) )
      => /\ Len(sent) = 1
         /\ Len(sent[1]) = 26
         /\ \E h \in 1 .. Len(multi_headers) : sent[1][1] = multi_headers[h]
         /\ sent[1][1] # AMBX_PACKET_HEADER
         /\ \A k \in 0 .. 4 :
              GroupAt(sent[1], 1 + 5 * k) =
                << << 11, 27, 43, 59, 75 >>[k + 1], 3, t[1], t[2], t[3] >>
         /\ Cardinality(ClaimPos) = 1
         /\ Cardinality(TransferPos) = 1
         /\ \A p \in TransferPos : trace[p].n = 26
         /\ Cardinality(ReleasePos) = 1

\* SetAllColors(red) has sent its packet at the first attempt
C14_Witness ==
    /\ pc = "chunk"
    /\ frame = "host"
    /\ ~(i < count)
    /\ leds = [k \in 1 .. 5 |-> << AllLeds[k], ToRGBColor(255, 0, 0) >>]
    /\ Len(sent) = 1
    /\ Cardinality(TransferPos) = 1
    /\ \A p \in TransferPos : FullTransfer(trace[p])

(***************************************************************************)
(* C15.  A controller is registered only if it is initialized, and the     *)
(* pass counts what it registers; a constructed controller that the pass   *)
(* has dealt with is either registered and initialized, or destroyed and   *)
(* not initialized; and only registered controllers outlive the pass.      *)
(***************************************************************************)
C15_RegisteredIffInitialized ==
    /\ \A s \in registered : initialized[s]
    /\ Cardinality(registered) = detected_devices
    /\ \A s \in Sessions : life[s] = "live" => s \in registered
    /\ \A s \in Sessions :
         ( life[s] # "none" /\ ( pass = "done" \/ s < det_i ) )
         => /\ s \in registered <=> initialized[s]
            /\ s \notin registered =>
                 /\ life[s] = "dead"
                 /\ dev_handle[s] = 0
                 /\ ~usb_context[s]

\* a pass has ended after discarding a controller that was not initialized
C15_Witness ==
    /\ pass = "done"
    /\ pc = "idle"
    /\ \E s \in Sessions :
         /\ life[s] = "dead"
         /\ ~initialized[s]
         /\ s \notin registered

(***************************************************************************)
(* C16.  A pass that has ended has emitted the access diagnostic exactly   *)
(* when it built a controller for at least one matching device and         *)
(* registered none; no diagnostic is emitted before the pass ends.         *)
(***************************************************************************)
C16_AccessDiagnostic ==
    /\ pass # "done" => ~diag
    /\ pass = "done" =>
         ( diag <=> ( registered = {} /\ \E s \in Sessions : life[s] # "none" ) )
    /\ ( pass = "done" /\ diag ) => \E d \in Devices : Matches(bus[d])

\* a pass over a bus whose only matching device cannot be opened has ended
C16_Witness ==
    /\ pass = "done"
    /\ diag
    /\ registered = {}
    /\ \E d \in Devices : bus[d] = "locked"

(***************************************************************************)
(* C17.  The interface is held only inside SendPacket: interface_claimed   *)
(* is true only for the controller whose SendPacket is between its claim   *)
(* and its release, so it is false whenever an operation or the            *)
(* constructor returns.  Every SendPacket on a ready controller attempts   *)
(* the claim before any transfer, and has released once per granted claim  *)
(* when it returns, after its last transfer.                               *)
(***************************************************************************)
C17_ClaimPerOperation ==
    /\ \A s \in Sessions :
         interface_claimed[s] => ( s = cur /\ pc \in {"transfer", "release"} )
    /\ \A p \in TransferPos : \E q \in ClaimPos : q < p
    /\ ( pc = "chunk" /\ sent # <<>> /\ ~NotReady(cur) ) =>
         /\ ClaimPos # {}
         /\ Cardinality(ReleasePos) = Cardinality(ClaimsGranted)
         /\ \A r \in ReleasePos : \A p \in ClaimPos \cup TransferPos : p < r

\* SendPacket has returned with the interface released after a granted
\* claim and three failed transfers
C17_Witness ==
    /\ pc = "chunk"
    /\ frame = "host"
    /\ ClaimsGranted # {}
    /\ Cardinality(TransferPos) = TRANSFER_ATTEMPTS
    /\ \A p \in TransferPos : ~Succeeded(trace[p])
    /\ ReleasePos # {}
    /\ ~interface_claimed[cur]

(***************************************************************************)
(* C18.  Every interrupt transfer is made while interface_claimed is true: *)
(* the thread is about to transfer only with the flag set, every transfer  *)
(* of the log follows a granted claim and precedes the release, and a      *)
(* SendPacket whose claim attempts all failed has made no transfer.        *)
(***************************************************************************)
C18_NoTransferWithoutClaim ==
    /\ pc = "transfer" => ( interface_claimed[cur] /\ dev_handle[cur] # 0 )
    /\ \A p \in TransferPos :
         /\ \E q \in ClaimsGranted : q < p
         /\ \A r \in ReleasePos : p < r
    /\ ( ClaimPos # {} /\ AllClaimsFailed ) => TransferPos = {}

\* the second packet of an operation was given up after three failed
\* claims, one of them not a busy answer
C18_Witness ==
    /\ pc = "chunk"
    /\ Len(sent) = 2
    /\ Cardinality(ClaimPos) = CLAIM_ATTEMPTS
    /\ AllClaimsFailed
    /\ \E p \in ClaimPos : trace[p].rc = "LIBUSB_ERROR_OTHER"
    /\ TransferPos = {}

(***************************************************************************)
(* C19.  For every count an unsigned int can hold, SetLEDColors' loop      *)
(* makes ceil(count / 5) iterations, at i = 0, 5, 10, ..., each with a     *)
(* batch_count in 1..5 that is 5 for all but the last and ends at count    *)
(* for the last, and i + 5 stays below the range of the type (stated at    *)
(* the loop's entry, for all counts at once).  While the loop runs, the    *)
(* packets handed over so far carry, in input order and once each, exactly *)
(* the lights of the chunks started so far.                                *)
(***************************************************************************)
InSetLEDColors ==
    /\ pc = "chunk" \/ Sending
    /\ Len(leds) = count
    /\ count > 0 \/ ( ~multiArgs.called /\ singleArgs = NoSingle )

RECURSIVE Bodies(_)
\* the packets' bytes after their header byte, concatenated
Bodies(pkts) == IF pkts = <<>> THEN <<>> ELSE Tail(Head(pkts)) \o Bodies(Tail(pkts))

Smaller(a, b) == IF a < b THEN a ELSE b

C19_Chunking ==
    /\ ( InSetLEDColors /\ i = 0 /\ sent = <<>> ) =>
       \A cnt \in 0 .. (UINT_RANGE - 1) :
         LET ch == ChunkList(0, cnt, UINT_RANGE) IN
         /\ Len(ch) = (cnt + 4) \div 5
         /\ \A k \in 1 .. Len(ch) :
              /\ ch[k][1] = 5 * (k - 1)
              /\ ch[k][2] \in 1 .. 5
              /\ k < Len(ch) => ch[k][2] = 5
              /\ k = Len(ch) => ch[k][1] + ch[k][2] = cnt
              /\ ch[k][1] + 5 < UINT_RANGE
    /\ InSetLEDColors =>
         LET covered == IF Sending THEN Smaller(i + 5, count) ELSE Smaller(i, count) IN
         /\ Len(sent) = (covered + 4) \div 5
         /\ \A k \in 1 .. Len(sent) :
              Len(sent[k]) = 1 + 5 * Smaller(5, count - 5 * (k - 1))
         /\ Bodies(sent) = LightGroups(SubSeq(leds, 1, covered))
         /\ multiArgs.called =>
              /\ multiArgs.count = Smaller(5, count - 5 * (Len(sent) - 1))
              /\ multiArgs.lights =
                    SubSeq(leds, 5 * (Len(sent) - 1) + 1, covered)

\* SetLEDColors with six lights has returned from its second chunk, which
\* held the sixth light alone
C19_Witness ==
    /\ InSetLEDColors
    /\ pc = "chunk"
    /\ count = 6
    /\ ~(i < count)
    /\ Len(sent) = 2
    /\ Len(sent[1]) = 26
    /\ Len(sent[2]) = 6
    /\ initialized[cur]
    /\ \E p \in TransferPos : FullTransfer(trace[p])

(***************************************************************************)
(* C20.  The header of a controller's batch packets depends on that        *)
(* controller's calls only: the first batch packet a controller builds,    *)
(* the lights-off of its constructor, carries the first header of the      *)
(* rotation whatever other controllers have sent.  The rotation index is   *)
(* a function-static shared by all controllers: see C20 in RESULTS.json.   *)
(***************************************************************************)
C20_HeaderSessionLocal ==
    ( frame = "ctor" /\ Sending /\ Len(sent) = 1 /\ Len(sent[1]) = 26 )
    => sent[1][1] = multi_headers[1]

(***************************************************************************)
(* C21.  While the constructor scans and when it has scanned: it has       *)
(* called libusb_open on matching devices only, in enumeration order, each *)
(* at most once; every open but a successful last one failed; at most one  *)
(* open succeeded and dev_handle is the device it opened (null before).    *)
(* When the scan of a list it obtained has ended, the controller holds the *)
(* first device of the bus that matches and opens, having tried every      *)
(* matching device before it and none after it; if no device matches and   *)
(* opens it holds none and has tried every matching device.                *)
(***************************************************************************)
OpenPos == Positions("libusb_open")
Openable == { d \in Devices : Matches(bus[d]) /\ OpenResult(bus[d]) = "LIBUSB_SUCCESS" }
Lowest(S) == CHOOSE d \in S : \A e \in S : d <= e

C21_FirstOpenableMatch ==
    pc \in {"ctor_scan", "ctor_free", "ctor_done"} =>
      LET opened == { trace[p].n : p \in OpenPos }
          granted == { p \in OpenPos : Succeeded(trace[p]) } IN
      /\ \A p \in OpenPos : Matches(bus[trace[p].n])
      /\ \A p, q \in OpenPos : p < q => trace[p].n < trace[q].n
      /\ \A p \in granted : p = Last(OpenPos)
      /\ IF granted = {}
         THEN dev_handle[cur] = 0 /\ ~initialized[cur]
         ELSE \A p \in granted : dev_handle[cur] = trace[p].n /\ initialized[cur]
      /\ pc = "ctor_scan" =>
           /\ granted = {}
           /\ opened = { d \in Devices : Matches(bus[d]) /\ d < scan_i }
      /\ ( pc \in {"ctor_free", "ctor_done"} /\ trace[1].rc = "ok" ) =>
           IF Openable = {}
           THEN /\ dev_handle[cur] = 0
                /\ opened = { d \in Devices : Matches(bus[d]) }
           ELSE /\ dev_handle[cur] = Lowest(Openable)
                /\ opened = { d \in Devices : Matches(bus[d]) /\ d <= Lowest(Openable) }

\* a constructor has skipped a matching device that did not open and holds
\* the next one
C21_Witness ==
    /\ pc = "ctor_done"
    /\ bus[1] = "locked"
    /\ bus[2] = "ambx"
    /\ dev_handle[cur] = 2
    /\ Cardinality(OpenPos) = 2

(***************************************************************************)
(* C22.  A step of a public colour operation, from its call to its return, *)
(* leaves initialized, dev_handle, usb_context, location and serial of     *)
(* every controller unchanged, whatever libusb answers; and initialized    *)
(* goes from true to false in no step at all.                              *)
(***************************************************************************)
C22_SendingKeepsDurableState ==
    [][ /\ ( frame = "host" \/ frame' = "host" \/ multiArgs' # multiArgs )
           => UNCHANGED << initialized, dev_handle, usb_context, location, serial >>
        /\ \A s \in Sessions : initialized[s] => initialized'[s] ]_vars

\* a colour operation on an initialized controller has released the
\* interface after three failed transfers
C22_Witness ==
    /\ pc = "chunk"
    /\ frame = "host"
    /\ initialized[cur]
    /\ dev_handle[cur] # 0
    /\ usb_context[cur]
    /\ ReleasePos # {}
    /\ LoggedError("transfer_error")

(***************************************************************************)
(* C23.  The rotation index is in 0..7.  A step that hands a batch packet  *)
(* (any packet that is not the 6-byte single packet) to SendPacket belongs *)
(* to a SetMultipleColors call with count in 2..5, gives the packet the    *)
(* header H[header_index] with H = [0xA4, 0xC4, 0xE4, 0x04, 0x24, 0x44,    *)
(* 0x64, 0x84], never 0xA1, and advances the index by one modulo 8,        *)
(* before any claim or transfer is attempted.  Every other step leaves the *)
(* index alone.  The index starts at 0, so the k-th batch packet of the    *)
(* process has header H[k mod 8].                                          *)
(***************************************************************************)
C23_HeaderRotation ==
    [][ LET batch == /\ Len(sent') = Len(sent) + 1
                     /\ Len(sent'[Len(sent')]) # 6 IN
        /\ header_index \in 0 .. 7
        /\ header_index' \in 0 .. 7
        /\ IF batch
           THEN /\ sent'[Len(sent')][1] =
                     << 164, 196, 228, 4, 36, 68, 100, 132 >>[header_index + 1]
                /\ sent'[Len(sent')][1] # 161
                /\ header_index' = (header_index + 1) % 8
                /\ multiArgs'.called
                /\ multiArgs'.count \in 2 .. 5
                /\ Len(sent'[Len(sent')]) = 1 + 5 * multiArgs'.count
           ELSE header_index' = header_index ]_vars

\* the seventh batch packet since the index was 0 was given up after three
\* failed claims, and the index has moved on
C23_Witness ==
    /\ pc = "chunk"
    /\ sent # <<>>
    /\ Len(LastSent) = 11
    /\ LastSent[1] = 100
    /\ header_index = 7
    /\ Cardinality(ClaimPos) = CLAIM_ATTEMPTS
    /\ AllClaimsFailed

(***************************************************************************)
(* C24.  While the thread runs an operation, the constructor or the        *)
(* destructor of a controller whose initialized is false, no claim and no  *)
(* transfer has been attempted and none is about to be; a packet handed to *)
(* SendPacket was answered with the not-initialized error; and the         *)
(* destructor has not called SetAllColors and has built no packet.         *)
(***************************************************************************)
C24_UninitializedNeverTouchesDevice ==
    ( cur # 0 /\ ~initialized[cur] ) =>
      /\ ClaimPos = {}
      /\ TransferPos = {}
      /\ ReleasePos = {}
      /\ ~Sending
      /\ ~interface_claimed[cur]
      /\ sent # <<>> =>
           /\ LoggedError("not_initialized")
           /\ frame = "host"
      /\ frame # "dtor"
      /\ pc \in {"dtor_release", "dtor_close", "dtor_exit", "dtor_done"} => sent = <<>>

\* SetLEDColors with six lights has run on a controller that is not
\* initialized
C24_Witness ==
    /\ pc = "chunk"
    /\ frame = "host"
    /\ ~initialized[cur]
    /\ Len(sent) = 2
    /\ ~(i < count)

====
